---- MODULE Spec2Model ----
(***************************************************************************)
(* A model of the ai-sales-agent call orchestration layer.                 *)
(*                                                                         *)
(*   SpecBot      one call session of bot.py (run_sales_bot) with the      *)
(*                recorder of call_recorder.py and the CSV store of        *)
(*                utils/csv_handler.py.                                    *)
(*                                                                         *)
(*   SpecCampaign two overlapping invocations of                          *)
(*                CampaignManager.start_campaign with the stop operations. *)
(*   SpecDispatch one campaign run with the clock, the business-hours gate *)
(*                and the life of the calls the provider accepted;         *)
(*                SpecDispatchFair adds weak fairness of its steps.        *)
(*                                                                         *)
(*   SpecStop     one campaign run with the two stop operations.            *)
(*   SpecFilter   one call of _apply_filters, SpecRetry one call of         *)
(*                retry_failed_calls, on any arguments.                    *)
(*   SpecRegistry one campaign run with the webhook handlers of server.py   *)
(*                (TwiML, media stream, status callback) and their maps.   *)
(*   SpecWebhook  the webhook handlers alone, for one call; SpecTwiml adds  *)
(*                lead data that cannot be parsed.                         *)
(*   SpecSessions two call sessions that end together and save.             *)
(*                                                                         *)
(* Every asyncio task is a process with a program counter; one action is   *)
(* the code a task runs between two suspension points.                     *)
(***************************************************************************)
EXTENDS Integers, Sequences, FiniteSets, TLC

\* ---------------------------------------------------------------- bounds
\* How often the voice pipeline may deliver each transport event to a session.
MaxFire == 2
\* Rows of data/leads.csv.
NumLeads == 3
\* Frames the pipeline delivers to the recorder during one session.
MaxFrames == 2
\* Longest lead list handed to _apply_filters, and largest max_leads.
FilterLen == 2
\* Most rows of data/results.csv read by retry_failed_calls.
MaxRows == 2
\* Seconds the wall clock may advance during a run.
MaxClock == 1
\* MAX_CONCURRENT_CALLS of the environment (campaign_manager.py line 30).
max_concurrent_calls == 1

\* ------------------------------------------------------- program constants
\* asyncio.sleep(2.0) of conversation_safeguard and asyncio.sleep(30) of
\* connection_timeout: the event loop wakes the timer with the earlier
\* deadline first.
SafeguardDelay == 2
ConnectionTimeoutDelay == 30

VARIABLES
    \* ---- bot.py, run_sales_bot: locals of one session
    conversation_started,   \* nonlocal flag of start_conversation
    transport_connected,    \* nonlocal flag set by on_connected / the safeguard
    botpc,                  \* run_sales_bot: "running", "except", "finally1", "finally2", "ended"
    task_cancelled,         \* task.cancel() has been called on the PipelineTask
    safeguard_task,         \* "sleeping", "done", "cancelled"
    timeout_task,           \* "sleeping", "saving", "done", "cancelled"
    connSleeping,           \* on_connected handlers inside asyncio.sleep(0.5)
    fired,                  \* transport event -> times delivered so far
    hpc,                    \* handler that saves an outcome -> its position
    starts,                 \* times start_conversation ran record_call_start
    greetings,              \* opening lines accepted by task.queue_frames
    writes,                 \* handler -> outcome rows it wrote to the results file
    call_outcome,           \* handler -> the outcome it handed to save_call_results
    \* ---- call_recorder.py: the CallRecorder of the session
    frames,                 \* the frames process_frame was called with, in order
    conversation_history,   \* self.conversation_history
    user_messages,          \* self.user_messages
    assistant_messages,     \* self.assistant_messages
    session_save,           \* session ending together with another -> its save_call_results
    \* ---- utils/csv_handler.py: the two files
    results_exists,         \* os.path.exists(results_path)
    results_rows,           \* the rows of data/results.csv
    leads_exists,           \* os.path.exists(leads_path)
    lead_status,            \* row of data/leads.csv -> its status column
    \* ---- campaign_manager.py: CampaignManager
    campaign_running,       \* self.campaign_running
    cm_active,              \* self.active_calls: call_id -> record (NoCall: no entry)
    rpc,                    \* start_campaign invocation -> "idle", "loading", "dispatching", "returned"
    result,                 \* start_campaign invocation -> what it returned
    tpc,                    \* invocation -> lead -> position of its process_lead task
    tsec,                   \* invocation -> lead -> second in which its call_id was built
    sem,                    \* invocation -> free permits of the batch's semaphore
    attempted,              \* invocation -> the batch's attempted counter
    completed,              \* invocation -> the batch's completed counter
    meetings,               \* invocation -> the batch's meetings counter
    now,                    \* datetime.now(), in seconds
    in_hours,               \* _is_business_hours() at this moment
    \* ---- the telephony provider
    callPhase,              \* call sid -> "none", "dialing", "connecting", "live", "ended"
    \* ---- server.py: module globals and handler tasks
    call_sessions,          \* key (call_id or CallSid) -> session data (NoSession: no entry)
    active_calls,           \* CallSid -> entry of the module's active_calls (NoActive: none)
    streampc,               \* CallSid -> its /twilio/stream handler: "none", "running", "closed"
    cleanups,               \* CallSid -> cleanup_call tasks sleeping
    key_errors,             \* KeyErrors raised by del active_calls[call_sid]
    \* ---- one call of a method that computes a result from its arguments
    fn_pc,                  \* "idle" (no such call), "ready", "done"
    fn_in,                  \* the arguments and the data the call reads
    fn_out                  \* what the call returned or raised

botVars == <<conversation_started, transport_connected, botpc, task_cancelled,
             safeguard_task, timeout_task, connSleeping, fired, hpc, starts,
             greetings, writes, call_outcome>>
csvVars == <<results_exists, results_rows, leads_exists, lead_status>>
campVars == <<campaign_running, cm_active, rpc, result, tpc, tsec, sem, attempted,
              completed, meetings>>
envVars == <<now, in_hours, callPhase>>
srvVars == <<call_sessions, active_calls, streampc, cleanups, key_errors>>
fnVars == <<fn_pc, fn_in, fn_out>>
recVars == <<frames, conversation_history, user_messages, assistant_messages,
             session_save>>
vars == <<botVars, csvVars, campVars, envVars, srvVars, fnVars, recVars>>

\* The rows of data/leads.csv.
Leads == 1..NumLeads

\* ------------------------------------------------------------------ bot.py
Events == {"on_connected", "on_disconnected", "on_error"}
\* The four places of run_sales_bot that write an outcome record.
Savers == {"on_disconnected", "on_error", "connection_timeout", "pipeline_error"}

\* ------------------------------------------------------ call_recorder.py
\* A frame's text is the sequence of its words and blanks. The texts the
\* pipeline delivers: empty, blank, a word, and a word between blanks.
Texts == {<<>>, <<" ">>, <<"Hi">>, <<" ", "no", " ">>}
\* The frame classes process_frame tells apart: TranscriptionFrame, any other
\* TextFrame, and a frame that is neither (audio, control).
FrameKinds == {"TranscriptionFrame", "TextFrame", "Frame"}

\* str.strip(): the text without its leading and trailing blanks.
Strip(text) ==
    LET solid == {i \in DOMAIN text : text[i] # " "} IN
    IF solid = {} THEN <<>>
    ELSE SubSeq(text, CHOOSE i \in solid : \A j \in solid : i <= j,
                      CHOOSE i \in solid : \A j \in solid : j <= i)

\* process_frame, lines 66 and 71: frame.text and frame.text.strip().
Recordable_Any(text) == TRUE
Recordable(text) == text # <<>> /\ Strip(text) # <<>>

\* process_frame, lines 64-72: the speaker a frame is recorded for
\* ("none": the frame is not an utterance).
SpeakerOf(kind) ==
    IF kind = "TranscriptionFrame" THEN "user"
    ELSE IF kind = "TextFrame" THEN "assistant"
    ELSE "none"

\* str.lower() of one word.
Lower(word) == IF word = "Hi" THEN "hi" ELSE word

\* get_full_conversation, lines 76-84: one line "Customer: ..." or
\* "Agent: ..." per entry of the history, joined by newlines.
RECURSIVE get_full_conversation(_)
get_full_conversation(history) ==
    IF history = <<>> THEN <<>>
    ELSE LET entry == history[Len(history)]
             line == <<IF entry.speaker = "user" THEN "Customer:" ELSE "Agent:", " ">> \o entry.message
             before == get_full_conversation(SubSeq(history, 1, Len(history) - 1))
         IN IF before = <<>> THEN line ELSE before \o <<"\n">> \o line

\* sales_context.py, analyze_call_outcome, lines 245-251: the call counts
\* as answered when the lower-cased text holds one of four words.
AnswerWords == {"hello", "hi", "yes", "speaking"}
analyze_call_outcome(text) ==
    [call_status |-> IF \E i \in DOMAIN text : Lower(text[i]) \in AnswerWords
                     THEN "answered" ELSE "no_answer"]

\* call_recorder.py: the outcome a saver hands to save_call_results.
\* on_disconnected (bot.py lines 215-218) passes what analyze_call_outcome
\* returns for the text of the history, the others the fixed failure-shaped
\* outcome of record_failed_call.
NoOutcome == [by |-> "none", call_status |-> "none", reason |-> "none"]
OutcomeOf(h) ==
    IF h = "on_disconnected"
    THEN [by |-> h,
          call_status |-> analyze_call_outcome(get_full_conversation(conversation_history)).call_status,
          reason |-> "none"]
    ELSE [by |-> h, call_status |-> "failed", reason |-> IF h = "on_error" THEN "transport_error" ELSE h]

\* The session's lead has a contact_number (save_call_results, line 138).
SessionHasPhone == TRUE

\* start_conversation, line 173: the guard of the single start.
CanStart_NoFlag(started, connected) == connected
CanStart(started, connected) == ~started /\ connected

\* start_conversation, lines 169-189, run to completion by its caller with
\* transport_connected = connected. The greeting is queued; if queue_frames
\* raises, the fallback greeting is tried once: queued is how many of the two
\* attempts the pipeline accepted (0 or 1).
start_conversation(connected) ==
    IF CanStart(conversation_started, connected)
    THEN /\ conversation_started' = TRUE
         /\ starts' = starts + 1
         /\ \E queued \in {0, 1} : greetings' = greetings + queued
    ELSE UNCHANGED <<conversation_started, starts, greetings>>

\* ------------------------------------------------- utils/csv_handler.py
\* save_call_result, lines 68-77, up to its first suspension: the handler's
\* lock is taken (a fresh CSVHandler, so it is free), then load_results is
\* awaited with the lock held. load_results returns an empty frame without
\* the lock when the file does not exist (lines 43-45); otherwise it waits
\* for the same non-reentrant asyncio.Lock (line 48) and never returns.
SaveBlocks == results_exists
SavePosition == IF SaveBlocks THEN "deadlock" ELSE "writing"

\* update_lead_status, lines 99-105, called by save_call_results (line 140)
\* when the lead has a phone number: the lock is taken and load_leads is
\* awaited with it held; load_leads returns an empty frame when the file
\* does not exist (update returns), else waits for the held lock forever.
UpdateBlocks == SessionHasPhone /\ leads_exists

\* Two call sessions of the server process that end together. Each runs
\* save_call_results of its own CallRecorder, which builds its own CSVHandler
\* (call_recorder.py lines 127-131) with its own lock (csv_handler.py line
\* 19) on the same two paths.
Sessions == {"first", "second"}

\* The call_status values analyze_call_outcome and the failure handlers put
\* in an outcome.
SessionStatuses == {"answered", "no_answer", "failed"}

\* save_call_results of session k, lines 110-133, up to the first suspension
\* of save_call_result: its handler's lock is taken and load_results is
\* awaited (see SavePosition).
SessionSaveBegins(k, status) ==
    /\ session_save[k].pc = "idle"
    /\ session_save' = [session_save EXCEPT ![k] =
           [pc |-> SavePosition,
            row |-> [by |-> k, call_status |-> status, reason |-> "none"]]]
    /\ UNCHANGED <<botVars, csvVars, campVars, envVars, srvVars, fnVars>>
    /\ UNCHANGED <<frames, conversation_history, user_messages, assistant_messages>>

\* save_call_result of session k, lines 79-93: the frame built before the
\* suspension, the empty loaded frame and the session's row, is written
\* over the file by the executor; then update_lead_status (line 140).
SessionWriteDone(k) ==
    /\ session_save[k].pc = "writing"
    /\ results_rows' = <<session_save[k].row>>
    /\ results_exists' = TRUE
    /\ session_save' = [session_save EXCEPT ![k].pc =
                           IF UpdateBlocks THEN "update_deadlock" ELSE "done"]
    /\ UNCHANGED <<botVars, leads_exists, lead_status, campVars, envVars, srvVars, fnVars>>
    /\ UNCHANGED <<frames, conversation_history, user_messages, assistant_messages>>

\* A saver h starts save_call_results(OutcomeOf(h)).
SaveBegin(h) ==
    /\ hpc' = [hpc EXCEPT ![h] = SavePosition]
    /\ call_outcome' = [call_outcome EXCEPT ![h] = OutcomeOf(h)]

\* ------------------------------------------------------ bot.py: actions
\* on_connected, lines 193-203: the event is delivered, the flag is set and
\* the handler sleeps 0.5 s.
OnConnectedFires ==
    /\ fired["on_connected"] < MaxFire
    /\ fired' = [fired EXCEPT !["on_connected"] = @ + 1]
    /\ transport_connected' = TRUE
    /\ connSleeping' = connSleeping + 1
    /\ UNCHANGED <<fnVars, recVars>>
    /\ UNCHANGED <<conversation_started, botpc, task_cancelled, safeguard_task,
                   timeout_task, hpc, call_outcome, starts, greetings, writes, csvVars, campVars, envVars, srvVars>>

\* on_connected, lines 205-206: after the sleep, start_conversation.
OnConnectedResumes ==
    /\ connSleeping > 0
    /\ connSleeping' = connSleeping - 1
    /\ start_conversation(transport_connected)
    /\ UNCHANGED <<fnVars, recVars>>
    /\ UNCHANGED <<transport_connected, botpc, task_cancelled, safeguard_task,
                   timeout_task, fired, hpc, call_outcome, writes, csvVars, campVars, envVars, srvVars>>

\* conversation_safeguard, lines 259-264: transport_connected after the
\* safeguard's check: forced to True when the conversation has not started.
AfterSafeguard_Keeps(started, connected) == connected
AfterSafeguard(started, connected) == IF ~started THEN TRUE ELSE connected

\* conversation_safeguard, lines 254-267: wakes after 2 s.
SafeguardWakes ==
    /\ safeguard_task = "sleeping"
    /\ (ConnectionTimeoutDelay < SafeguardDelay => timeout_task # "sleeping")
    /\ safeguard_task' = "done"
    /\ transport_connected' = AfterSafeguard(conversation_started, transport_connected)
    /\ IF ~conversation_started
       THEN start_conversation(TRUE)
       ELSE UNCHANGED <<conversation_started, starts, greetings>>
    /\ UNCHANGED <<fnVars, recVars>>
    /\ UNCHANGED <<botpc, task_cancelled, timeout_task, connSleeping, fired,
                   hpc, call_outcome, writes, csvVars, campVars, envVars, srvVars>>

\* connection_timeout, lines 237-246: wakes after 30 s; without a connection
\* it records the failure (and then cancels the pipeline, see WriteDone).
TimeoutWakes ==
    /\ timeout_task = "sleeping"
    /\ (SafeguardDelay < ConnectionTimeoutDelay => safeguard_task # "sleeping")
    /\ IF ~transport_connected
       THEN timeout_task' = "saving" /\ SaveBegin("connection_timeout")
       ELSE timeout_task' = "done" /\ UNCHANGED <<hpc, call_outcome>>
    /\ UNCHANGED <<fnVars, recVars>>
    /\ UNCHANGED <<conversation_started, transport_connected, botpc, task_cancelled,
                   safeguard_task, connSleeping, fired, starts, greetings, writes,
                   csvVars, campVars, envVars, srvVars>>

\* process_frame, lines 60-74: one frame reaches the recorder, the last
\* processor of the running pipeline. A transcription with text that is not
\* blank is recorded, stripped, as a user message, another text frame as an
\* assistant message; every frame is pushed on.
ProcessFrame(kind, text) ==
    /\ botpc = "running"
    /\ ~task_cancelled
    /\ Len(frames) < MaxFrames
    /\ frames' = Append(frames, [kind |-> kind, text |-> text])
    /\ LET speaker == SpeakerOf(kind)
           entry == [speaker |-> speaker, message |-> Strip(text)]
       IN IF speaker # "none" /\ Recordable(text)
          THEN /\ conversation_history' = Append(conversation_history, entry)
               /\ user_messages' = IF speaker = "user"
                                    THEN Append(user_messages, entry.message) ELSE user_messages
               /\ assistant_messages' = IF speaker = "assistant"
                                         THEN Append(assistant_messages, entry.message)
                                         ELSE assistant_messages
          ELSE UNCHANGED <<conversation_history, user_messages, assistant_messages>>
    /\ UNCHANGED <<botVars, csvVars, campVars, envVars, srvVars, fnVars, session_save>>

\* on_disconnected, lines 208-218: call_started is always True; the outcome
\* is analysed and save_call_results is awaited.
OnDisconnectedFires ==
    /\ fired["on_disconnected"] < MaxFire
    /\ hpc["on_disconnected"] \in {"idle", "done"}
    /\ fired' = [fired EXCEPT !["on_disconnected"] = @ + 1]
    /\ SaveBegin("on_disconnected")
    /\ UNCHANGED <<fnVars, recVars>>
    /\ UNCHANGED <<conversation_started, transport_connected, botpc, task_cancelled,
                   safeguard_task, timeout_task, connSleeping, starts, greetings,
                   writes, csvVars, campVars, envVars, srvVars>>

\* on_disconnected, lines 208-216, when analyze_call_outcome raises: nothing
\* in the handler catches the exception, so it leaves the handler at line
\* 216, before save_call_results and task.cancel().
OnDisconnectedAnalyzerRaises ==
    /\ fired["on_disconnected"] < MaxFire
    /\ hpc["on_disconnected"] \in {"idle", "done", "raised"}
    /\ fired' = [fired EXCEPT !["on_disconnected"] = @ + 1]
    /\ hpc' = [hpc EXCEPT !["on_disconnected"] = "raised"]
    /\ UNCHANGED <<fnVars, recVars>>
    /\ UNCHANGED <<conversation_started, transport_connected, botpc, task_cancelled,
                   safeguard_task, timeout_task, connSleeping, starts, greetings,
                   writes, call_outcome, csvVars, campVars, envVars, srvVars>>

\* on_error, lines 223-229: record_failed_call("transport_error") is awaited.
OnErrorFires ==
    /\ fired["on_error"] < MaxFire
    /\ hpc["on_error"] \in {"idle", "done"}
    /\ fired' = [fired EXCEPT !["on_error"] = @ + 1]
    /\ SaveBegin("on_error")
    /\ UNCHANGED <<fnVars, recVars>>
    /\ UNCHANGED <<conversation_started, transport_connected, botpc, task_cancelled,
                   safeguard_task, timeout_task, connSleeping, starts, greetings,
                   writes, csvVars, campVars, envVars, srvVars>>

\* save_call_result, lines 79-93, then save_call_results lines 136-143 and
\* the rest of the saver: the executor's to_csv completes with the frame
\* built from the (empty) loaded frame and the new row, the lock is
\* released, update_lead_status runs, and the saver continues: the three
\* handlers call task.cancel(), the except block of run_sales_bot goes on to
\* its finally block.
WriteDone(h) ==
    /\ hpc[h] = "writing"
    /\ results_rows' = <<call_outcome[h]>>
    /\ results_exists' = TRUE
    /\ writes' = [writes EXCEPT ![h] = @ + 1]
    /\ IF UpdateBlocks
       THEN /\ hpc' = [hpc EXCEPT ![h] = "deadlock"]
            /\ UNCHANGED <<task_cancelled, botpc, timeout_task>>
       ELSE /\ hpc' = [hpc EXCEPT ![h] = "done"]
            /\ task_cancelled' = (task_cancelled \/ h # "pipeline_error")
            /\ botpc' = IF h = "pipeline_error" THEN "finally1" ELSE botpc
            /\ timeout_task' = IF h = "connection_timeout" THEN "done" ELSE timeout_task
    /\ UNCHANGED <<fnVars, recVars>>
    /\ UNCHANGED <<conversation_started, transport_connected, safeguard_task,
                   connSleeping, fired, starts, greetings, call_outcome, leads_exists,
                   lead_status, campVars, envVars, srvVars>>

\* run_sales_bot, lines 280-285: runner.run(task) returns, because the task
\* was cancelled or the pipeline finished.
RunnerReturns ==
    /\ botpc = "running"
    /\ botpc' = "finally1"
    /\ UNCHANGED <<fnVars, recVars>>
    /\ UNCHANGED <<conversation_started, transport_connected, task_cancelled,
                   safeguard_task, timeout_task, connSleeping, fired, hpc, call_outcome, starts,
                   greetings, writes, csvVars, campVars, envVars, srvVars>>

\* run_sales_bot, lines 287-292: runner.run(task) raises; the except block
\* awaits record_failed_call("pipeline_error").
RunnerRaises ==
    /\ botpc = "running"
    /\ botpc' = "except"
    /\ SaveBegin("pipeline_error")
    /\ UNCHANGED <<fnVars, recVars>>
    /\ UNCHANGED <<conversation_started, transport_connected, task_cancelled,
                   safeguard_task, timeout_task, connSleeping, fired, starts,
                   greetings, writes, csvVars, campVars, envVars, srvVars>>

\* run_sales_bot, lines 294-301: the timeout monitor is cancelled if not done.
FinallyCancelTimeout ==
    /\ botpc = "finally1"
    /\ botpc' = "finally2"
    /\ timeout_task' = IF timeout_task \in {"sleeping", "saving"} THEN "cancelled" ELSE timeout_task
    /\ hpc' = IF timeout_task = "saving"
              THEN [hpc EXCEPT !["connection_timeout"] = "cancelled"] ELSE hpc
    /\ UNCHANGED <<fnVars, recVars>>
    /\ UNCHANGED <<conversation_started, transport_connected, task_cancelled,
                   safeguard_task, connSleeping, fired, starts, greetings, writes,
                   call_outcome, csvVars, campVars, envVars, srvVars>>

\* run_sales_bot, lines 303-311: the safeguard is cancelled if not done.
FinallyCancelSafeguard ==
    /\ botpc = "finally2"
    /\ botpc' = "ended"
    /\ safeguard_task' = IF safeguard_task = "sleeping" THEN "cancelled" ELSE safeguard_task
    /\ UNCHANGED <<fnVars, recVars>>
    /\ UNCHANGED <<conversation_started, transport_connected, task_cancelled,
                   timeout_task, connSleeping, fired, hpc, call_outcome, starts, greetings, writes,
                   csvVars, campVars, envVars, srvVars>>

\* Rows another session left in data/results.csv before this one started.
PriorRows == <<[by |-> "earlier_session", call_status |-> "answered", reason |-> "none"]>>

InitSession ==
    /\ conversation_started = FALSE
    /\ transport_connected = FALSE
    /\ botpc = "running"
    /\ task_cancelled = FALSE
    /\ safeguard_task = "sleeping"
    /\ timeout_task = "sleeping"
    /\ connSleeping = 0
    /\ fired = [e \in Events |-> 0]
    /\ hpc = [h \in Savers |-> "idle"]
    /\ starts = 0
    /\ greetings = 0
    /\ writes = [h \in Savers |-> 0]
    /\ call_outcome = [h \in Savers |-> NoOutcome]
    /\ frames = <<>>
    /\ conversation_history = <<>>
    /\ user_messages = <<>>
    /\ assistant_messages = <<>>
    /\ session_save = [k \in Sessions |-> [pc |-> "idle", row |-> NoOutcome]]

\* The two files as an earlier run of the program may have left them; every
\* row of the leads file is pending.
InitStore ==
    /\ results_exists \in BOOLEAN
    /\ results_rows = IF results_exists THEN PriorRows ELSE <<>>
    /\ leads_exists \in BOOLEAN
    /\ lead_status = [l \in Leads |-> "pending"]

\* ------------------------------------------------- campaign_manager.py
\* The concurrent invocations of start_campaign (two HTTP requests).
Runs == {1, 2}

\* contact_number cell of each row of the leads file, as its characters: the
\* cell of row 2 is empty, rows 1 and 3 hold the same number written with and without the plus.
Phone(l) ==
    IF l = 2 THEN <<>>
    ELSE IF l = 1 THEN <<"+", "1">>
    ELSE IF l = 3 THEN <<"1">>
    ELSE <<"2">>

\* csv_handler.load_leads, lines 31-34: pandas.read_csv with dtype str reads
\* an empty cell as the float NaN, and to_dict("records") hands it on; every
\* other cell is its text. str(NaN) is "nan".
NaN == <<"nan">>
LoadedPhone(l) == IF Phone(l) = <<>> THEN NaN ELSE Phone(l)

\* _make_call, line 129: "not phone_number" is true of None and of the empty
\* string, and false of NaN.
MissingPhone(p) == p = <<>>

\* The provider creates a call only for a number: "+nan" is answered 400.
Dialable(p) == p # NaN

\* _make_call, line 138: phone_str.replace('+', '').replace('-', '').
IsDigit(ch) == ch \notin {"+", "-"}
StripPhone(p) == SelectSeq(p, IsDigit)

\* _make_call, line 138: call_id = call_<YYYYmmdd_HHMMSS>_<stripped phone>.
CallId(sec, p) == <<sec, StripPhone(p)>>

CallIds == {CallId(sec, LoadedPhone(l)) : sec \in 0..MaxClock, l \in Leads}

\* The call sid the provider returns with its 201: unique per accepted dial.
Sid(r, l) == (r - 1) * NumLeads + l
Sids == {Sid(r, l) : r \in Runs, l \in Leads}

\* No entry under a key of self.active_calls.
NoCall == [lead |-> 0, call_sid |-> 0, status |-> "none"]

\* csv_handler.get_pending_leads, lines 58-66: the rows with status pending;
\* load_leads returns an empty frame when the file does not exist.
PendingLeads == IF leads_exists THEN {l \in Leads : lead_status[l] = "pending"} ELSE {}

\* start_campaign, lines 45-46: the guard that rejects a second run.
RejectsStart_Never == FALSE
RejectsStart == campaign_running

\* start_campaign, lines 43-50: the running flag is tested, then
\* get_pending_leads is awaited.
StartCall(r) ==
    /\ rpc[r] = "idle"
    /\ IF RejectsStart
       THEN /\ rpc' = [rpc EXCEPT ![r] = "returned"]
            /\ result' = [result EXCEPT ![r] = "already_running"]
       ELSE /\ rpc' = [rpc EXCEPT ![r] = "loading"]
            /\ UNCHANGED result
    /\ UNCHANGED <<fnVars, recVars>>
    /\ UNCHANGED <<campaign_running, cm_active, tpc, tsec, sem, attempted, completed,
                   meetings, botVars, csvVars, envVars, srvVars>>

\* start_campaign, lines 52-64 and _process_leads_batch, lines 83-112: the
\* leads are loaded; with none the error is returned, else the flag is set,
\* the counters and the semaphore are created and one process_lead task per
\* lead is gathered.
LoadDone(r) ==
    /\ rpc[r] = "loading"
    /\ IF PendingLeads = {}
       THEN /\ rpc' = [rpc EXCEPT ![r] = "returned"]
            /\ result' = [result EXCEPT ![r] = "no_pending_leads"]
            /\ UNCHANGED <<campaign_running, tpc, sem, attempted, completed, meetings>>
       ELSE /\ rpc' = [rpc EXCEPT ![r] = "dispatching"]
            /\ campaign_running' = TRUE
            /\ tpc' = [tpc EXCEPT ![r] = [l \in Leads |-> IF l \in PendingLeads THEN "waiting" ELSE "none"]]
            /\ sem' = [sem EXCEPT ![r] = max_concurrent_calls]
            /\ attempted' = [attempted EXCEPT ![r] = 0]
            /\ completed' = [completed EXCEPT ![r] = 0]
            /\ meetings' = [meetings EXCEPT ![r] = 0]
            /\ UNCHANGED result
    /\ UNCHANGED <<fnVars, recVars>>
    /\ UNCHANGED <<cm_active, tsec, botVars, csvVars, envVars, srvVars>>

\* process_lead, lines 90-99 and _make_call, lines 124-148: the task gets a
\* permit (asyncio wakes the waiters in the order the tasks were created),
\* tests the business hours, counts the attempt and goes into _make_call:
\* without a phone number the error is returned at once, else the call is
\* tracked under its call_id and the provider request is awaited.
Acquire(r, l) ==
    /\ rpc[r] = "dispatching"
    /\ tpc[r][l] = "waiting"
    /\ sem[r] > 0
    /\ \A k \in Leads : k < l => tpc[r][k] # "waiting"
    /\ IF ~in_hours
       THEN /\ tpc' = [tpc EXCEPT ![r][l] = "skipped"]
            /\ UNCHANGED <<attempted, cm_active, tsec, sem>>
       ELSE /\ attempted' = [attempted EXCEPT ![r] = @ + 1]
            /\ IF MissingPhone(LoadedPhone(l))
               THEN /\ tpc' = [tpc EXCEPT ![r][l] = "no_phone"]
                    /\ UNCHANGED <<cm_active, tsec, sem>>
               ELSE /\ tpc' = [tpc EXCEPT ![r][l] = "dialing"]
                    /\ tsec' = [tsec EXCEPT ![r][l] = now]
                    /\ cm_active' = [cm_active EXCEPT ![CallId(now, LoadedPhone(l))] =
                                        [lead |-> l, call_sid |-> 0, status |-> "dialing"]]
                    /\ sem' = [sem EXCEPT ![r] = @ - 1]
    /\ UNCHANGED <<fnVars, recVars>>
    /\ UNCHANGED <<campaign_running, rpc, result, completed, meetings, botVars,
                   csvVars, envVars, srvVars>>

\* _make_call, lines 165-169: the finally block marks the entry completed if
\* the call_id is still tracked.
FinallyCompleted(active, id) ==
    IF active[id] # NoCall THEN [active EXCEPT ![id].status = "completed"] ELSE active

\* _initiate_twilio_call, lines 208-212: the provider has taken the request
\* and created the call; its 201 answer is still on the way to _make_call.
ProviderCreatesCall(r, l) ==
    /\ tpc[r][l] = "dialing"
    /\ Dialable(LoadedPhone(l))
    /\ callPhase[Sid(r, l)] = "none"
    /\ callPhase' = [callPhase EXCEPT ![Sid(r, l)] = "dialing"]
    /\ UNCHANGED <<fnVars, recVars>>
    /\ UNCHANGED <<now, in_hours, botVars, csvVars, campVars, srvVars>>

\* _make_call, lines 150-157 and 162-169, process_lead, lines 101-104: the
\* provider answers 201 with a call sid. The sid is stored in the entry under
\* the call_id (a KeyError if the entry is gone: the except block returns an
\* error), the dial counts as completed and the permit is released.
DialAccepted(r, l) ==
    /\ tpc[r][l] = "dialing"
    /\ Dialable(LoadedPhone(l))
    /\ LET id == CallId(tsec[r][l], LoadedPhone(l)) IN
       IF cm_active[id] # NoCall
       THEN /\ cm_active' = FinallyCompleted(
                               [cm_active EXCEPT ![id].call_sid = Sid(r, l),
                                                 ![id].status = "in_progress"], id)
            /\ tpc' = [tpc EXCEPT ![r][l] = "ok"]
            /\ completed' = [completed EXCEPT ![r] = @ + 1]
       ELSE /\ tpc' = [tpc EXCEPT ![r][l] = "error"]
            /\ UNCHANGED <<cm_active, completed>>
    /\ callPhase' = [callPhase EXCEPT ![Sid(r, l)] = IF @ = "none" THEN "dialing" ELSE @]
    /\ sem' = [sem EXCEPT ![r] = @ + 1]
    /\ UNCHANGED <<fnVars, recVars>>
    /\ UNCHANGED <<campaign_running, rpc, result, tsec, attempted, meetings, botVars,
                   csvVars, now, in_hours, srvVars>>

\* _make_call, lines 158-169: the provider answers with another status, or
\* the request fails; the error is returned and the permit released.
DialRejected(r, l) ==
    /\ tpc[r][l] = "dialing"
    /\ cm_active' = FinallyCompleted(cm_active, CallId(tsec[r][l], LoadedPhone(l)))
    /\ tpc' = [tpc EXCEPT ![r][l] = "rejected"]
    /\ sem' = [sem EXCEPT ![r] = @ + 1]
    /\ UNCHANGED <<fnVars, recVars>>
    /\ UNCHANGED <<campaign_running, rpc, result, tsec, attempted, completed, meetings,
                   botVars, csvVars, envVars, srvVars>>

\* process_lead tasks of the run that have not returned.
Unfinished_OnlyDialing(r) == {l \in Leads : tpc[r][l] = "dialing"}
Unfinished(r) == {l \in Leads : tpc[r][l] \in {"waiting", "dialing"}}

\* _process_leads_batch, lines 110-116: wait_for gives up after 3600 s and
\* cancels the gathered tasks; a task cancelled inside _make_call runs the
\* finally block of _make_call.
Deadline(r) ==
    /\ rpc[r] = "dispatching"
    /\ Unfinished(r) # {}
    /\ tpc' = [tpc EXCEPT ![r] = [l \in Leads |->
                  IF l \in Unfinished(r) THEN "cancelled" ELSE tpc[r][l]]]
    /\ cm_active' = [id \in CallIds |->
                       IF /\ cm_active[id] # NoCall
                          /\ \E l \in Leads : /\ tpc[r][l] = "dialing"
                                              /\ id = CallId(tsec[r][l], LoadedPhone(l))
                       THEN [cm_active[id] EXCEPT !.status = "completed"]
                       ELSE cm_active[id]]
    /\ sem' = [sem EXCEPT ![r] = max_concurrent_calls]
    /\ UNCHANGED <<fnVars, recVars>>
    /\ UNCHANGED <<campaign_running, rpc, result, tsec, attempted, completed, meetings,
                   botVars, csvVars, envVars, srvVars>>

\* _process_leads_batch, lines 118-122 and start_campaign, lines 66-74: all
\* tasks are finished; the flag is cleared and the summary returned.
BatchDone(r) ==
    /\ rpc[r] = "dispatching"
    /\ Unfinished(r) = {}
    /\ campaign_running' = FALSE
    /\ rpc' = [rpc EXCEPT ![r] = "returned"]
    /\ result' = [result EXCEPT ![r] = "completed"]
    /\ UNCHANGED <<fnVars, recVars>>
    /\ UNCHANGED <<cm_active, tpc, tsec, sem, attempted, completed, meetings, botVars,
                   csvVars, envVars, srvVars>>

\* CampaignManager.stop_campaign, lines 284-297: the flag is cleared (then
\* the method sleeps and returns).
StopCampaign ==
    /\ campaign_running
    /\ campaign_running' = FALSE
    /\ UNCHANGED <<fnVars, recVars>>
    /\ UNCHANGED <<cm_active, rpc, result, tpc, tsec, sem, attempted, completed,
                   meetings, botVars, csvVars, envVars, srvVars>>

\* server.py, POST /campaign/stop, lines 122-134: the flag is cleared and
\* the manager's active_calls emptied.
StopEndpoint ==
    /\ campaign_running
    /\ campaign_running' = FALSE
    /\ cm_active' = [id \in CallIds |-> NoCall]
    /\ UNCHANGED <<fnVars, recVars>>
    /\ UNCHANGED <<rpc, result, tpc, tsec, sem, attempted, completed, meetings,
                   botVars, csvVars, envVars, srvVars>>

\* ---------------------------------------------------------- environment
\* The wall clock reaches the next second.
Tick ==
    /\ now < MaxClock
    /\ now' = now + 1
    /\ UNCHANGED <<fnVars, recVars>>
    /\ UNCHANGED <<in_hours, callPhase, botVars, csvVars, campVars, srvVars>>

\* The wall clock crosses CALL_HOURS_START or CALL_HOURS_END.
HoursChange ==
    /\ in_hours' = ~in_hours
    /\ UNCHANGED <<fnVars, recVars>>
    /\ UNCHANGED <<now, callPhase, botVars, csvVars, campVars, srvVars>>

\* The callee answers: the provider fetches /twilio/twiml (server.py 139).
CallAnswered(s) ==
    /\ callPhase[s] = "dialing"
    /\ callPhase' = [callPhase EXCEPT ![s] = "connecting"]
    /\ UNCHANGED <<fnVars, recVars>>
    /\ UNCHANGED <<now, in_hours, botVars, csvVars, campVars, srvVars>>

\* The media stream starts: /twilio/stream runs the bot (server.py 288-408).
StreamStarted(s) ==
    /\ callPhase[s] = "connecting"
    /\ callPhase' = [callPhase EXCEPT ![s] = "live"]
    /\ UNCHANGED <<fnVars, recVars>>
    /\ UNCHANGED <<now, in_hours, botVars, csvVars, campVars, srvVars>>

\* The call ends (busy, no answer, failed, hung up): status callback,
\* server.py 423-444.
CallEnded(s) ==
    /\ callPhase[s] \in {"dialing", "connecting", "live"}
    /\ callPhase' = [callPhase EXCEPT ![s] = "ended"]
    /\ UNCHANGED <<fnVars, recVars>>
    /\ UNCHANGED <<now, in_hours, botVars, csvVars, campVars, srvVars>>

\* ---------------------------------------------------------------- server.py
LeadOfSid(s) == ((s - 1) % NumLeads) + 1
RunOfSid(s) == ((s - 1) \div NumLeads) + 1
\* The call_id in the Url the dial of this call gave the provider.
CallIdOfSid(s) == CallId(tsec[RunOfSid(s)][LeadOfSid(s)], LoadedPhone(LeadOfSid(s)))

IdKey(id) == <<"call_id", id>>
SidKey(s) == <<"CallSid", s>>
SessionKeys == {IdKey(id) : id \in CallIds} \cup {SidKey(s) : s \in Sids}

NoId == <<-1, <<>>>>
NoSession == [lead |-> 0, call_sid |-> 0, call_id |-> NoId]
NoActive == [stream_sid |-> 0, call_id |-> NoId, lead |-> 0, status |-> "none"]

\* twilio_twiml, lines 160-170: with lead data and a call_id in the request
\* the session data is stored under the call_id and, if the request has a
\* CallSid, under the CallSid too.
StoreSession_Always(sessions, lead, id, sid) ==
    IF id # NoId
    THEN LET data == [lead |-> lead, call_sid |-> sid, call_id |-> id] IN
         [k \in SessionKeys |->
             IF k = IdKey(id) \/ (sid # 0 /\ k = SidKey(sid)) THEN data ELSE sessions[k]]
    ELSE sessions
StoreSession(sessions, lead, id, sid) ==
    IF lead # 0 /\ id # NoId
    THEN LET data == [lead |-> lead, call_sid |-> sid, call_id |-> id] IN
         [k \in SessionKeys |->
             IF k = IdKey(id) \/ (sid # 0 /\ k = SidKey(sid)) THEN data ELSE sessions[k]]
    ELSE sessions

\* twilio_twiml, lines 198-204, and twilio_stream_websocket, lines 372-378:
\* the scan over all sessions for one whose call_sid field is sid.
ScanByCallSid(sessions, sid) ==
    LET hits == {k \in SessionKeys : sessions[k] # NoSession /\ sessions[k].call_sid = sid} IN
    IF hits = {} THEN 0 ELSE sessions[CHOOSE k \in hits : TRUE].lead

\* twilio_stream_websocket, lines 365-378: the session of a CallSid, by the
\* direct lookup and then by the scan (0: none found).
LookupCallSid(sessions, sid) ==
    IF sessions[SidKey(sid)] # NoSession
    THEN sessions[SidKey(sid)].lead
    ELSE ScanByCallSid(sessions, sid)

\* twilio_twiml, lines 181-191: the lead of a call_id, from call_sessions and
\* then from the campaign manager's active_calls (0: none found).
LookupCallId(sessions, id) ==
    IF sessions[IdKey(id)] # NoSession THEN sessions[IdKey(id)].lead
    ELSE IF cm_active[id] # NoCall THEN cm_active[id].lead
    ELSE 0

\* twilio_twiml, lines 181-204: the lead data for a request that carries none.
TwimlLookup(sessions, id, sid) ==
    IF id # NoId /\ (sessions[IdKey(id)] # NoSession \/ cm_active[id] # NoCall)
    THEN LookupCallId(sessions, id)
    ELSE IF sid # 0 THEN LookupCallSid(sessions, sid)
    ELSE 0

\* twilio_call_status, line 432: the entry a status callback finds.
StatusLookup(sid) == IF active_calls[sid] # NoActive THEN active_calls[sid].lead ELSE 0

\* The lead_data parameter of a TwiML request: none, the JSON object the
\* dial put in the Url, or a string that is not the JSON of an object.
LeadInputs == {"absent", "valid", "malformed"}
\* The lead a session holds when its lead_data string does not parse.
Malformed == -1

\* twilio_twiml, lines 206-285: the document returned for the lead data
\* found (0: none). Without lead data Say/Hangup is returned (206-217); else
\* the data is decoded and parsed inside try, and any exception is answered
\* with the Say/Hangup document of the except block (270-285).
TwimlDocument_NoCatch(found) ==
    IF found = 0 THEN "say_hangup"
    ELSE IF found = Malformed THEN "unhandled" ELSE "connect_stream"
TwimlDocument(found) ==
    IF found = 0 \/ found = Malformed THEN "say_hangup" ELSE "connect_stream"

\* What the provider does with the answer: it opens the stream, hangs up as
\* told, or, without a document, fails the call with an application error.
PhaseAfter(doc) ==
    IF doc = "connect_stream" THEN "connecting"
    ELSE IF doc = "say_hangup" THEN "ended"
    ELSE "app_error"

\* del active_calls[call_sid]: the entry is removed; a missing key raises.
Del(entries, sid) ==
    IF entries[sid] # NoActive
    THEN [map |-> [entries EXCEPT ![sid] = NoActive], error |-> "none"]
    ELSE [map |-> entries, error |-> "KeyError"]

\* Lines 415-416 and 439-440: the del runs only under
\* `if call_sid in active_calls`, with no suspension between test and del.
DelIfPresent_Unchecked(entries, sid) == Del(entries, sid)
DelIfPresent(entries, sid) ==
    IF entries[sid] # NoActive THEN Del(entries, sid)
    ELSE [map |-> entries, error |-> "none"]

\* twilio_stream_websocket, lines 380-391: the handler goes on to the bot
\* with lead data that was found and parses.
Resolves_Any(lead) == TRUE
Resolves(lead) == lead # 0 /\ lead # Malformed

\* twilio_twiml, lines 139-285: the provider fetches the call instructions
\* of an accepted call; the request carries the lead data, the call_id and
\* the CallSid, or lacks some of them. With lead data that parses the
\* Connect/Stream document is returned, else a Say/Hangup document.
Twiml(s, leadData, hasId, hasSid) ==
    /\ callPhase[s] \in {"dialing", "connecting"}
    /\ LET lead == IF leadData = "valid" THEN LeadOfSid(s)
                   ELSE IF leadData = "malformed" THEN Malformed ELSE 0
           id == IF hasId THEN CallIdOfSid(s) ELSE NoId
           sid == IF hasSid THEN s ELSE 0
           stored == StoreSession(call_sessions, lead, id, sid)
           found == IF lead # 0 THEN lead ELSE TwimlLookup(stored, id, sid)
       IN /\ call_sessions' = stored
          /\ callPhase' = [callPhase EXCEPT ![s] = PhaseAfter(TwimlDocument(found))]
    /\ UNCHANGED <<fnVars, recVars>>
    /\ UNCHANGED <<now, in_hours, active_calls, streampc, cleanups, key_errors,
                   botVars, csvVars, campVars>>

\* twilio_stream_websocket, lines 288-408: the start event of the call's
\* media stream arrives with its callSid and streamSid. Without session data
\* the socket is closed, and so it is when the session's lead data does not
\* parse (line 391 raises into the except block of 410); else the call is
\* tracked and the bot runs.
StreamStart(s) ==
    /\ callPhase[s] = "connecting"
    /\ streampc[s] = "none"
    /\ LET lead == LookupCallSid(call_sessions, s) IN
       IF ~Resolves(lead)
       THEN /\ streampc' = [streampc EXCEPT ![s] = "closed"]
            /\ callPhase' = [callPhase EXCEPT ![s] = "ended"]
            /\ UNCHANGED active_calls
       ELSE /\ streampc' = [streampc EXCEPT ![s] = "running"]
            /\ callPhase' = [callPhase EXCEPT ![s] = "live"]
            /\ active_calls' = [active_calls EXCEPT ![s] =
                   [stream_sid |-> s,
                    call_id |-> IF call_sessions[SidKey(s)] # NoSession
                                THEN call_sessions[SidKey(s)].call_id ELSE NoId,
                    lead |-> lead, status |-> "connected"]]
    /\ UNCHANGED <<fnVars, recVars>>
    /\ UNCHANGED <<now, in_hours, call_sessions, cleanups, key_errors,
                   botVars, csvVars, campVars>>

\* twilio_stream_websocket, lines 350-356 and 413-420: a start event that
\* lacks the callSid or the streamSid; the socket is closed and the handler
\* returns through its finally block, which removes the entry of the callSid
\* it was given, if there is one.
StreamStartIncomplete(s, hasCallSid, hasStreamSid) ==
    /\ callPhase[s] = "connecting"
    /\ streampc[s] = "none"
    /\ ~(hasCallSid /\ hasStreamSid)
    /\ streampc' = [streampc EXCEPT ![s] = "closed"]
    /\ callPhase' = [callPhase EXCEPT ![s] = "ended"]
    /\ LET d == IF hasCallSid THEN DelIfPresent(active_calls, s)
                ELSE [map |-> active_calls, error |-> "none"]
       IN /\ active_calls' = d.map
          /\ key_errors' = key_errors + (IF d.error = "KeyError" THEN 1 ELSE 0)
    /\ UNCHANGED <<fnVars, recVars>>
    /\ UNCHANGED <<now, in_hours, call_sessions, cleanups,
                   botVars, csvVars, campVars>>

\* twilio_stream_websocket, lines 408-420: run_sales_bot returns or raises;
\* the finally block removes the call's entry and closes the socket.
StreamEnd(s) ==
    /\ streampc[s] = "running"
    /\ streampc' = [streampc EXCEPT ![s] = "closed"]
    /\ LET d == DelIfPresent(active_calls, s)
       IN /\ active_calls' = d.map
          /\ key_errors' = key_errors + (IF d.error = "KeyError" THEN 1 ELSE 0)
    /\ callPhase' = [callPhase EXCEPT ![s] = "ended"]
    /\ UNCHANGED <<fnVars, recVars>>
    /\ UNCHANGED <<now, in_hours, call_sessions, cleanups,
                   botVars, csvVars, campVars>>

TerminalStatuses == {"completed", "failed", "busy", "no-answer"}
\* The CallStatus values a status callback is drawn from: one that ends the
\* call and one that does not.
StatusInputs == {"completed", "in-progress"}

\* twilio_call_status, lines 423-444: the provider posts a status of a call
\* (a terminal one only once the call has ended); a tracked call has its
\* status set and, for a terminal status, a cleanup task started.
StatusCallback(s, st) ==
    /\ callPhase[s] # "none"
    /\ st \in TerminalStatuses => callPhase[s] = "ended"
    /\ IF StatusLookup(s) # 0
       THEN /\ active_calls' = [active_calls EXCEPT ![s].status = st]
            /\ IF st \in TerminalStatuses
               THEN /\ cleanups[s] < MaxFire
                    /\ cleanups' = [cleanups EXCEPT ![s] = @ + 1]
               ELSE UNCHANGED cleanups
       ELSE UNCHANGED <<active_calls, cleanups>>
    /\ UNCHANGED <<fnVars, recVars>>
    /\ UNCHANGED <<now, in_hours, callPhase, call_sessions, streampc, key_errors,
                   botVars, csvVars, campVars>>

\* cleanup_call, lines 437-440: after 5 s the entry is removed if present.
CleanupCall(s) ==
    /\ cleanups[s] > 0
    /\ cleanups' = [cleanups EXCEPT ![s] = @ - 1]
    /\ LET d == DelIfPresent(active_calls, s)
       IN /\ active_calls' = d.map
          /\ key_errors' = key_errors + (IF d.error = "KeyError" THEN 1 ELSE 0)
    /\ UNCHANGED <<fnVars, recVars>>
    /\ UNCHANGED <<now, in_hours, callPhase, call_sessions, streampc,
                   botVars, csvVars, campVars>>

InitServer ==
    /\ call_sessions = [k \in SessionKeys |-> NoSession]
    /\ active_calls = [s \in Sids |-> NoActive]
    /\ streampc = [s \in Sids |-> "none"]
    /\ cleanups = [s \in Sids |-> 0]
    /\ key_errors = 0

InitCampaign ==
    /\ campaign_running = FALSE
    /\ cm_active = [id \in CallIds |-> NoCall]
    /\ rpc = [r \in Runs |-> "idle"]
    /\ result = [r \in Runs |-> "none"]
    /\ tpc = [r \in Runs |-> [l \in Leads |-> "none"]]
    /\ tsec = [r \in Runs |-> [l \in Leads |-> 0]]
    /\ sem = [r \in Runs |-> 0]
    /\ attempted = [r \in Runs |-> 0]
    /\ completed = [r \in Runs |-> 0]
    /\ meetings = [r \in Runs |-> 0]

InitEnv ==
    /\ now = 0
    /\ in_hours = TRUE
    /\ callPhase = [s \in Sids |-> "none"]

\* No method call under way.
InitNoCall ==
    /\ fn_pc = "idle"
    /\ fn_in = <<>>
    /\ fn_out = <<>>

InitBot == InitSession /\ InitStore /\ InitCampaign /\ InitEnv /\ InitServer /\ InitNoCall

NextBot ==
    \/ OnConnectedFires
    \/ OnConnectedResumes
    \/ SafeguardWakes
    \/ TimeoutWakes
    \/ OnDisconnectedFires
    \/ OnErrorFires
    \/ \E h \in Savers : WriteDone(h)
    \/ RunnerReturns
    \/ RunnerRaises
    \/ FinallyCancelTimeout
    \/ FinallyCancelSafeguard

SpecBot == InitBot /\ [][NextBot]_vars

\* The same session on an event loop that keeps running: a handler, timer or
\* task that can take a step eventually takes one.
SpecBotFair == SpecBot /\ WF_vars(NextBot)

\* The session with an outcome analyzer that may fail.
NextAnalyzerFault ==
    \/ NextBot
    \/ OnDisconnectedAnalyzerRaises

SpecAnalyzerFault == InitBot /\ [][NextAnalyzerFault]_vars

\* One session's recorder: the frames of the conversation, then the
\* disconnect that saves the analysed outcome.
NextRecorder ==
    \/ \E kind \in FrameKinds, text \in Texts : ProcessFrame(kind, text)
    \/ OnDisconnectedFires
    \/ WriteDone("on_disconnected")
    \/ RunnerReturns

SpecRecorder == InitBot /\ [][NextRecorder]_vars

\* Two sessions whose calls end at the same time, each saving its outcome.
NextSessions ==
    \/ \E k \in Sessions, status \in SessionStatuses : SessionSaveBegins(k, status)
    \/ \E k \in Sessions : SessionWriteDone(k)

SpecSessions == InitBot /\ [][NextSessions]_vars

\* start_campaign called twice, with the two stop operations.
InitCamp == InitSession /\ InitStore /\ InitCampaign /\ InitEnv /\ InitServer /\ InitNoCall

NextCampaign ==
    \/ \E r \in Runs : StartCall(r)
    \/ \E r \in Runs : LoadDone(r)
    \/ \E r \in Runs, l \in Leads : Acquire(r, l)
    \/ \E r \in Runs, l \in Leads : DialAccepted(r, l)
    \/ \E r \in Runs, l \in Leads : DialRejected(r, l)
    \/ \E r \in Runs : Deadline(r)
    \/ \E r \in Runs : BatchDone(r)
    \/ StopCampaign
    \/ StopEndpoint

\* The two invocations run over a leads file in which the rows 1 and 2 are
\* pending and the other rows have been called.
InitOverlap ==
    /\ InitSession /\ InitCampaign /\ InitEnv /\ InitServer /\ InitNoCall
    /\ results_exists \in BOOLEAN
    /\ results_rows = IF results_exists THEN PriorRows ELSE <<>>
    /\ leads_exists \in BOOLEAN
    /\ lead_status = [l \in Leads |-> IF l \in {1, 2} THEN "pending" ELSE "called"]

SpecCampaign == InitOverlap /\ [][NextCampaign]_vars

\* One run, with the clock, the business hours and the calls' lives.
NextDispatch ==
    \/ StartCall(1)
    \/ LoadDone(1)
    \/ \E l \in Leads : Acquire(1, l)
    \/ \E l \in Leads : DialAccepted(1, l)
    \/ \E l \in Leads : DialRejected(1, l)
    \/ Deadline(1)
    \/ BatchDone(1)
    \/ Tick
    \/ HoursChange
    \/ \E s \in Sids : CallAnswered(s)
    \/ \E s \in Sids : StreamStarted(s)
    \/ \E s \in Sids : CallEnded(s)

SpecDispatch == InitCamp /\ [][NextDispatch]_vars

\* The same run on an event loop that keeps running: some task, timer or
\* callback that can take a step eventually takes one.
SpecDispatchFair == SpecDispatch /\ WF_vars(NextDispatch)

\* One run with the two stop operations and the clock.
NextStop ==
    \/ StartCall(1)
    \/ LoadDone(1)
    \/ \E l \in Leads : Acquire(1, l)
    \/ \E l \in Leads : DialAccepted(1, l)
    \/ \E l \in Leads : DialRejected(1, l)
    \/ BatchDone(1)
    \/ StopCampaign
    \/ StopEndpoint
    \/ Tick

SpecStop == InitCamp /\ [][NextStop]_vars
SpecStopFair == SpecStop /\ WF_vars(NextStop)

\* One run, with the webhook handlers of server.py, over a leads file in
\* which the rows 1 and 3 (one number, written in two ways) are pending and
\* the other rows have been called.
InitRegistry ==
    /\ InitSession /\ InitCampaign /\ InitEnv /\ InitServer /\ InitNoCall
    /\ results_exists = FALSE
    /\ results_rows = <<>>
    /\ leads_exists = TRUE
    /\ lead_status = [l \in Leads |-> IF l \in {1, 3} THEN "pending" ELSE "called"]

NextRegistry ==
    \/ StartCall(1)
    \/ LoadDone(1)
    \/ \E l \in Leads : Acquire(1, l)
    \/ \E l \in Leads : ProviderCreatesCall(1, l)
    \/ \E l \in Leads : DialAccepted(1, l)
    \/ \E l \in Leads : DialRejected(1, l)
    \/ BatchDone(1)
    \/ Tick
    \/ \E s \in Sids, leadData \in {"absent", "valid"}, hasId, hasSid \in BOOLEAN :
          Twiml(s, leadData, hasId, hasSid)
    \/ \E s \in Sids : StreamStart(s)
    \/ \E s \in Sids : StreamEnd(s)
    \/ \E s \in Sids : CallEnded(s)
    \/ \E s \in Sids, st \in StatusInputs : StatusCallback(s, st)
    \/ \E s \in Sids : CleanupCall(s)

SpecRegistry == InitRegistry /\ [][NextRegistry]_vars

\* The same on a server that keeps running: a handler, timer or task that
\* can take a step eventually takes one.
SpecRegistryFair == SpecRegistry /\ WF_vars(NextRegistry)

\* One run over a leads file in which only row 1 is pending, with the
\* webhook handlers of its call.
InitWebhook ==
    /\ InitSession /\ InitCampaign /\ InitEnv /\ InitServer /\ InitNoCall
    /\ results_exists = FALSE
    /\ results_rows = <<>>
    /\ leads_exists = TRUE
    /\ lead_status = [l \in Leads |-> IF l = 1 THEN "pending" ELSE "called"]

\* The run and the handlers other than the TwiML handler.
NextCallHandlers ==
    \/ StartCall(1)
    \/ LoadDone(1)
    \/ \E l \in Leads : Acquire(1, l)
    \/ \E l \in Leads : ProviderCreatesCall(1, l)
    \/ \E l \in Leads : DialAccepted(1, l)
    \/ \E l \in Leads : DialRejected(1, l)
    \/ BatchDone(1)
    \/ Tick
    \/ \E s \in Sids : StreamStart(s)
    \/ \E s \in Sids, hasCallSid, hasStreamSid \in BOOLEAN :
          StreamStartIncomplete(s, hasCallSid, hasStreamSid)
    \/ \E s \in Sids : StreamEnd(s)
    \/ \E s \in Sids : CallEnded(s)
    \/ \E s \in Sids, st \in StatusInputs : StatusCallback(s, st)
    \/ \E s \in Sids : CleanupCall(s)

\* TwiML requests that carry the lead data of the dial or none.
NextWebhook ==
    \/ NextCallHandlers
    \/ \E s \in Sids, leadData \in {"absent", "valid"}, hasId, hasSid \in BOOLEAN :
          Twiml(s, leadData, hasId, hasSid)

SpecWebhook == InitWebhook /\ [][NextWebhook]_vars

\* TwiML requests with any lead data, also data that does not parse.
NextTwiml ==
    \/ NextCallHandlers
    \/ \E s \in Sids, leadData \in LeadInputs, hasId, hasSid \in BOOLEAN :
          Twiml(s, leadData, hasId, hasSid)

SpecTwiml == InitWebhook /\ [][NextTwiml]_vars

\* ------------------------------------ campaign_manager.py: _apply_filters
\* All sequences over S of length at most n.
SeqsUpTo(S, n) == UNION {[1..k -> S] : k \in 0..n}

\* The values of the two columns the filters test.
BusinessTypes == {"Restaurant", "Healthcare"}
CompanySizes == {"Small", "Medium"}
FilterLeads == [business_type : BusinessTypes, company_size : CompanySizes]

\* A criteria value for a column: absent (None), a string (val), or a list
\* of strings (items).
NoCriterion == [kind |-> "none", val |-> "", items |-> <<>>]
StrCriterion(v) == [kind |-> "str", val |-> v, items |-> <<>>]
ListCriterion(xs) == [kind |-> "list", val |-> "", items |-> xs]
ColumnCriteria(values, one, other) ==
    {NoCriterion, StrCriterion(""), StrCriterion(one), ListCriterion(<<>>),
     ListCriterion(<<one>>), ListCriterion(<<one, other>>)}

\* A max_leads value: absent (None) or an integer.
NoCap == [kind |-> "none", n |-> 0]
Cap(n) == [kind |-> "int", n |-> n]
CapCriteria == {NoCap} \cup {Cap(n) : n \in 0..FilterLen}

\* criteria.get(key) as a condition, lines 255, 264, 273: None, the empty
\* string, the empty list and 0 are false.
Truthy(c) == (c.kind = "str" /\ c.val # "") \/ (c.kind = "list" /\ c.items # <<>>)
CapTruthy(c) == c.kind = "int" /\ c.n # 0

\* Lines 257-258 and 266-267: a single string becomes a one-element list.
AsList(c) == IF c.kind = "str" THEN <<c.val>> ELSE c.items
Elements(xs) == {xs[i] : i \in 1..Len(xs)}

\* Lines 259-262 and 268-271: the leads whose column value is in the list.
KeepBusinessType(leads, c) ==
    LET Test(lead) == lead.business_type \in Elements(AsList(c)) IN SelectSeq(leads, Test)
KeepCompanySize(leads, c) ==
    LET Test(lead) == lead.company_size \in Elements(AsList(c)) IN SelectSeq(leads, Test)

\* Line 274: leads[:n].
Prefix(leads, n) ==
    IF n >= 0
    THEN SubSeq(leads, 1, IF n < Len(leads) THEN n ELSE Len(leads))
    ELSE SubSeq(leads, 1, IF Len(leads) + n > 0 THEN Len(leads) + n ELSE 0)

\* _apply_filters, lines 251-277.
ApplyFilters(leads, criteria) ==
    LET byType == IF Truthy(criteria.business_type)
                  THEN KeepBusinessType(leads, criteria.business_type) ELSE leads
        bySize == IF Truthy(criteria.company_size)
                  THEN KeepCompanySize(byType, criteria.company_size) ELSE byType
    IN IF CapTruthy(criteria.max_leads) THEN Prefix(bySize, criteria.max_leads.n) ELSE bySize

\* One call _apply_filters(leads, criteria) on any lead list and criteria.
InitFilter ==
    /\ InitSession /\ InitStore /\ InitCampaign /\ InitEnv /\ InitServer
    /\ fn_pc = "ready"
    /\ fn_in \in [leads : SeqsUpTo(FilterLeads, FilterLen),
                  criteria : [business_type : ColumnCriteria(BusinessTypes, "Restaurant", "Healthcare"),
                              company_size : ColumnCriteria(CompanySizes, "Small", "Medium"),
                              max_leads : CapCriteria]]
    /\ fn_out = <<>>

ApplyFiltersCall ==
    /\ fn_pc = "ready"
    /\ fn_pc' = "done"
    /\ fn_out' = ApplyFilters(fn_in.leads, fn_in.criteria)
    /\ UNCHANGED <<fn_in, botVars, csvVars, campVars, envVars, srvVars, recVars>>

NextFilter == ApplyFiltersCall

SpecFilter == InitFilter /\ [][NextFilter]_vars

\* -------------------------------- campaign_manager.py: retry_failed_calls
\* A row of the results file as retry_failed_calls reads it: its call_status
\* and the hours between its call_date and now.
ResultRows == [call_status : {"failed", "completed"}, age : {2, 30}]
MaxAges == {1, 24}

\* __init__, line 32, and the method of line 315: the constructor binds the
\* name retry_failed_calls in the instance to the boolean of the
\* RETRY_FAILED_CALLS setting; an attribute of the instance is found before
\* a function of the class, so manager.retry_failed_calls is that boolean.
RetryAttribute(enabled) == [kind |-> "bool", value |-> enabled]

\* Lines 326-334: the failed rows whose call_date is after now - max_age.
RecentFailed(rows, max_age) ==
    LET Test(row) == row.call_status = "failed" /\ row.age < max_age IN SelectSeq(rows, Test)

\* The body of the method, lines 317-364: the leads handed to
\* _process_leads_batch and the status returned.
RetryBody(rows, max_age, enabled) ==
    IF ~enabled THEN [status |-> "disabled", retried |-> <<>>]
    ELSE IF rows = <<>> THEN [status |-> "info", retried |-> <<>>]
    ELSE IF RecentFailed(rows, max_age) = <<>> THEN [status |-> "info", retried |-> <<>>]
    ELSE [status |-> "completed", retried |-> RecentFailed(rows, max_age)]

\* manager.retry_failed_calls(max_age): calling a boolean raises TypeError
\* before any statement of the method runs.
CallRetry(attribute, rows, max_age) ==
    IF attribute.kind = "bool"
    THEN [status |-> "TypeError", retried |-> <<>>]
    ELSE RetryBody(rows, max_age, attribute.value)

\* One call retry_failed_calls(max_age) on a manager built with the setting
\* on or off, over any results file.
InitRetry ==
    /\ InitSession /\ InitStore /\ InitCampaign /\ InitEnv /\ InitServer
    /\ fn_pc = "ready"
    /\ fn_in \in [rows : SeqsUpTo(ResultRows, MaxRows), max_age : MaxAges, enabled : BOOLEAN]
    /\ fn_out = <<>>

RetryFailedCallsCall ==
    /\ fn_pc = "ready"
    /\ fn_pc' = "done"
    /\ fn_out' = CallRetry(RetryAttribute(fn_in.enabled), fn_in.rows, fn_in.max_age)
    /\ UNCHANGED <<fn_in, botVars, csvVars, campVars, envVars, srvVars, recVars>>

NextRetry == RetryFailedCallsCall

SpecRetry == InitRetry /\ [][NextRetry]_vars

\* ------------------------------------------------ claims on one session
TotalWrites ==
    writes["on_disconnected"] + writes["on_error"] + writes["connection_timeout"]
        + writes["pipeline_error"]

\* C1 (as stated): in every session the conversation start happens exactly
\* once and the greeting is enqueued exactly once: when run_sales_bot has
\* returned, both have happened exactly once.
C1_StartExactlyOnce == botpc = "ended" => (starts = 1 /\ greetings = 1)

\* C1 (amended): the conversation start happens at most once and the greeting
\* is enqueued at most once and only by that start; the start has happened
\* exactly once as soon as the safeguard has run its check or every delivered
\* connected event has finished its handler.
C1_StartAtMostOnce ==
    /\ starts <= 1
    /\ greetings <= starts
    /\ (starts = 1) = conversation_started
    /\ (safeguard_task = "done" \/ (fired["on_connected"] > 0 /\ connSleeping = 0))
          => starts = 1

\* Both timers ran and the connected event was delivered twice, after one start.
C1_Witness ==
    /\ starts = 1 /\ greetings = 1
    /\ fired["on_connected"] >= 2 /\ connSleeping = 0
    /\ safeguard_task = "done" /\ timeout_task = "done"

\* C2: when the connection-timeout timer has fired and no connected event has
\* been delivered yet, the connection_timeout failure is recorded and the
\* conversation is not started.
C2_TimeoutBeforeConnect ==
    (timeout_task \in {"saving", "done"} /\ fired["on_connected"] = 0)
        => (hpc["connection_timeout"] # "idle" /\ ~conversation_started)

\* C9: a session in which a disconnect, a transport error or a pipeline
\* exception occurred has written exactly one outcome record once it is over,
\* and never more than one.
C9_ExactlyOneRecord ==
    /\ TotalWrites <= 1
    /\ ( /\ botpc = "ended"
         /\ \A h \in Savers : hpc[h] # "writing"
         /\ \E h \in Savers : hpc[h] # "idle" )
          => TotalWrites = 1

\* ------------------------------------------------ claims on the campaign
\* Calls of the run that are dialed and have not ended: the dial request is
\* in flight, or the provider's call is ringing, connecting or live.
InFlight ==
    Cardinality({l \in Leads : tpc[1][l] = "dialing"})
        + Cardinality({s \in Sids : callPhase[s] \in {"dialing", "connecting", "live"}})

\* C3: in every reachable state of a campaign over more leads than the cap,
\* the number of its calls that are dialed and not yet ended is at most
\* max_concurrent_calls.
C3_InFlightWithinCap == InFlight <= max_concurrent_calls

\* C4: a start_campaign invocation that finds campaign_running true returns
\* the already-running error in that same step, loads and dispatches nothing,
\* and leaves the counters, the tasks, the permits, the flag, active_calls
\* and both files as they were.
C4_AlreadyRunningRejected ==
    [][\A r \in Runs :
          (rpc[r] = "idle" /\ rpc'[r] # "idle" /\ campaign_running)
              => /\ rpc'[r] = "returned"
                 /\ result'[r] = "already_running"
                 /\ UNCHANGED <<attempted, completed, meetings, cm_active, tpc, tsec,
                                sem, campaign_running, csvVars>>]_vars

\* One invocation was rejected while the other had dispatched an attempt.
C4_Witness ==
    \E r \in Runs, q \in Runs :
        /\ r # q
        /\ result[r] = "already_running"
        /\ rpc[q] = "dispatching"
        /\ attempted[q] > 0

\* C5: at most one invocation of start_campaign is dispatching leads at any
\* instant.
C5_OneRunDispatching == Cardinality({r \in Runs : rpc[r] = "dispatching"}) <= 1

\* C10: every attempt that failed at the dial (no phone number, rejected by
\* the provider) eventually has a failure record in the results store.
C10_FailedAttemptRecorded ==
    \A l \in Leads :
        (tpc[1][l] \in {"no_phone", "rejected"})
            ~> (\E i \in 1..Len(results_rows) : results_rows[i].call_status = "failed")

\* ------------------------------------------------ claims on the registry
\* The session data of call s is stored under its CallSid.
BoundToCallSid(s) ==
    /\ call_sessions[SidKey(s)] # NoSession
    /\ call_sessions[SidKey(s)].call_id = CallIdOfSid(s)

\* C6: once a session is stored under its call_id and its CallSid, the lookup
\* by the call_id and the lookup by the CallSid return the same lead.
C6_LookupsAgree ==
    \A s \in Sids :
        BoundToCallSid(s)
            => LookupCallId(call_sessions, CallIdOfSid(s)) = LookupCallSid(call_sessions, s)

\* C7: once a session registered under its call_id is bound to its CallSid, a
\* status callback carrying only that CallSid resolves to the session's lead.
C7_StatusResolves ==
    \A s \in Sids : BoundToCallSid(s) => StatusLookup(s) = LeadOfSid(s)

\* C8: a lookup by the call_id of an accepted attempt never returns the lead
\* of another attempt.
C8_NoMergeOnTokenReuse ==
    \A s \in Sids :
        callPhase[s] # "none"
            => LookupCallId(call_sessions, CallIdOfSid(s)) \in {0, LeadOfSid(s)}

\* ------------------------------------------------ claims on failed dials
\* Leads of the run whose dial failed inside the dispatcher.
DialFailed == {l \in Leads : tpc[1][l] \in {"no_phone", "rejected"}}

\* C11: once the run is over, a dial that failed inside the dispatcher (no
\* phone number, provider rejection) has an outcome record with call_status
\* failed in the results store.
C11_FailedDialHasRecord ==
    (rpc[1] = "returned" /\ DialFailed # {})
        => \E i \in 1..Len(results_rows) : results_rows[i].call_status = "failed"

\* The run came to its end with no lead skipped by the business-hours gate
\* and none cancelled by the deadline.
RanToEnd ==
    /\ rpc[1] = "returned"
    /\ result[1] = "completed"
    /\ \A l \in Leads : tpc[1][l] \notin {"skipped", "cancelled"}

\* C12: a lead whose dial fails counts as attempted and not as completed and
\* has no other effect on the run; a run that came to its end within business
\* hours and before the deadline has attempted every pending lead, found the
\* phone number missing for exactly the leads whose contact_number cell is
\* empty, and sent a dial request for exactly the others.
C12_FailedDialCountsAttempted ==
    RanToEnd =>
        /\ attempted[1] = Cardinality({l \in Leads : lead_status[l] = "pending"})
        /\ completed[1] = Cardinality({l \in Leads : tpc[1][l] = "ok"})
        /\ {l \in Leads : tpc[1][l] \in {"ok", "rejected", "error"}}
               = {l \in Leads : lead_status[l] = "pending" /\ Phone(l) # <<>>}
        /\ {l \in Leads : tpc[1][l] = "no_phone"}
               = {l \in Leads : lead_status[l] = "pending" /\ Phone(l) = <<>>}

\* ------------------------------------- claims on the end of a run's queue
\* C13: once a dispatch of the run has found the time outside the business
\* hours, no lead of the run is dialed any more.
C13_QueueAbandonedOutsideHours ==
    [][(\E k \in Leads : tpc[1][k] = "skipped")
          => \A l \in Leads : ~(tpc[1][l] = "waiting" /\ tpc'[1][l] = "dialing")]_vars

\* The deadline of the run has passed: wait_for has cancelled its tasks.
DeadlinePassed == \E l \in Leads : tpc[1][l] = "cancelled"

\* C14: when the run exceeds the deadline every dispatch not yet finished is
\* cancelled in that step and the counters are left alone; from then on no
\* lead is waiting or dialing, no lead is dialed and no counter changes, the
\* batch can return at once, and when start_campaign has returned its
\* summary the running flag is false.
C14_DeadlineAbortsRun ==
    /\ [](DeadlinePassed =>
            /\ \A l \in Leads : tpc[1][l] \notin {"waiting", "dialing"}
            /\ rpc[1] = "dispatching" => ENABLED BatchDone(1)
            /\ rpc[1] = "returned" => (result[1] = "completed" /\ ~campaign_running))
    /\ [][/\ (~DeadlinePassed /\ DeadlinePassed')
                => /\ UNCHANGED <<attempted, completed, meetings, callPhase, rpc>>
                   /\ \A l \in Leads :
                         tpc'[1][l] = IF tpc[1][l] \in {"waiting", "dialing"}
                                      THEN "cancelled" ELSE tpc[1][l]
          /\ DeadlinePassed
                => /\ UNCHANGED <<attempted, completed, meetings, tpc>>
                   /\ \A s \in Sids : callPhase[s] = "none" => callPhase'[s] = "none"]_vars

\* The run returned a partial summary: one dial was accepted, a later lead
\* was cancelled by the deadline.
C14_Witness ==
    /\ DeadlinePassed
    /\ rpc[1] = "returned"
    /\ attempted[1] >= 1
    /\ completed[1] = 1
    /\ \E l \in Leads : tpc[1][l] = "ok"

\* C15: once a stop operation has cleared the running flag of the dispatching
\* run, no further lead of that run is dialed.
C15_NoDialAfterStop ==
    [][(rpc[1] = "dispatching" /\ ~campaign_running)
          => \A l \in Leads : ~(tpc[1][l] = "waiting" /\ tpc'[1][l] = "dialing")]_vars

\* ------------------------------------------- claims on the session maps
\* C16: the session data stored under the CallSid of a call that has ended
\* is eventually removed from call_sessions.
C16_EndedSessionReleased ==
    \A s \in Sids :
        (callPhase[s] = "ended" /\ call_sessions[SidKey(s)] # NoSession)
            ~> (call_sessions[SidKey(s)] = NoSession)

\* C17: while the dial of a lead is still inside _make_call and the provider
\* has created the call, a TwiML request that carries only the call's call_id
\* resolves to that lead.
C17_RegisteredBeforeDialReturns ==
    \A l \in Leads :
        (tpc[1][l] = "dialing" /\ callPhase[Sid(1, l)] \in {"dialing", "connecting"})
            => TwimlLookup(call_sessions, CallIdOfSid(Sid(1, l)), 0) = l

\* C18: a request that carries both identifiers is resolved by the exact
\* CallSid match before the call_id is tried: when call_sessions has an entry
\* under the request's CallSid, the TwiML lookup returns that entry's lead.
C18_CallSidMatchedFirst ==
    \A s \in Sids :
        (callPhase[s] # "none" /\ call_sessions[SidKey(s)] # NoSession)
            => TwimlLookup(call_sessions, CallIdOfSid(s), s) = call_sessions[SidKey(s)].lead

\* ---------------------------------------------- claims on _apply_filters
\* The leads that pass the membership test of a column: all of them when the
\* criterion is absent.
PassesBoth(leads, criteria) ==
    LET Test(lead) ==
            /\ criteria.business_type.kind # "none"
                  => lead.business_type \in Elements(AsList(criteria.business_type))
            /\ criteria.company_size.kind # "none"
                  => lead.company_size \in Elements(AsList(criteria.company_size))
    IN SelectSeq(leads, Test)

\* C19: _apply_filters returns, in their order, the first min(max_leads, m)
\* of the m leads that pass both membership tests (all m of them when
\* max_leads is absent), for every lead list and criteria value.
C19_FilterThenCap ==
    fn_pc = "done" =>
        LET passing == PassesBoth(fn_in.leads, fn_in.criteria)
            cap == fn_in.criteria.max_leads
        IN fn_out = IF cap.kind = "none" THEN passing
                    ELSE SubSeq(passing, 1, IF cap.n < Len(passing) THEN cap.n ELSE Len(passing))

\* ------------------------------------------ claims on retry_failed_calls
\* C20: retry_failed_calls(max_age) on a manager with retries enabled
\* dispatches exactly the rows of the results file whose call_status is
\* failed and whose call date is newer than now - max_age.
C20_RetriesRecentFailed ==
    (fn_pc = "done" /\ fn_in.enabled)
        => LET Wanted(row) == row.call_status = "failed" /\ row.age < fn_in.max_age
           IN fn_out.retried = SelectSeq(fn_in.rows, Wanted)

\* ---------------------------------------------- claims on the recorder
\* C21: a call that ends by a disconnect with no message captured is written
\* with call_status no_conversation: every row the disconnect handler wrote
\* while the history is still empty carries that status.
C21_EmptyCallIsNoConversation ==
    \A i \in DOMAIN results_rows :
        (results_rows[i].by = "on_disconnected" /\ conversation_history = <<>>)
            => results_rows[i].call_status = "no_conversation"

\* A text of blanks only (or of nothing).
IsBlank(text) == \A i \in DOMAIN text : text[i] = " "
\* The frames that carry an utterance that is not blank, in arrival order.
Utterances(fs) ==
    LET Said(f) == f.kind \in {"TranscriptionFrame", "TextFrame"} /\ ~IsBlank(f.text)
    IN SelectSeq(fs, Said)
\* The messages of one speaker in the history, in order.
MessagesOf(history, speaker) ==
    LET By(e) == e.speaker = speaker
        own == SelectSeq(history, By)
    IN [i \in DOMAIN own |-> own[i].message]

\* C30: the history holds exactly the utterances that are not blank, in
\* arrival order, each under its speaker; its length is the sum of the
\* lengths of the two message lists, and its user and assistant
\* subsequences are those lists.
C30_HistoryIsUtterancesInOrder ==
    LET said == Utterances(frames) IN
    /\ Len(conversation_history) = Len(said)
    /\ \A i \in DOMAIN said :
          /\ conversation_history[i].message = Strip(said[i].text)
          /\ conversation_history[i].speaker =
                IF said[i].kind = "TranscriptionFrame" THEN "user" ELSE "assistant"
    /\ Len(conversation_history) = Len(user_messages) + Len(assistant_messages)
    /\ MessagesOf(conversation_history, "user") = user_messages
    /\ MessagesOf(conversation_history, "assistant") = assistant_messages

\* A blank utterance frame and one that is not blank have both arrived.
C30_Witness ==
    /\ \E i, j \in DOMAIN frames :
          /\ frames[i].kind # "Frame" /\ IsBlank(frames[i].text)
          /\ frames[j].kind # "Frame" /\ ~IsBlank(frames[j].text)
    /\ Len(conversation_history) = 1

\* ------------------------------------------ claims on the end of a session
\* C22: after a transport error the session has written a failed outcome
\* with the reason transport_error and the pipeline task has been cancelled.
C22_TransportErrorEndsSession ==
    (fired["on_error"] > 0)
        ~> /\ task_cancelled
           /\ \E i \in DOMAIN results_rows :
                 /\ results_rows[i].by = "on_error"
                 /\ results_rows[i].call_status = "failed"
                 /\ results_rows[i].reason = "transport_error"

C28_SupersededTimersCancelled ==
    [][(\/ connSleeping' < connSleeping /\ ~conversation_started /\ conversation_started'
        \/ botpc # "ended" /\ botpc' = "ended")
          => (safeguard_task' # "sleeping" /\ timeout_task' # "sleeping")]_vars

\* A disconnect, a transport error or a connection timeout is being handled
\* or has been handled.
SessionEnded ==
    \E h \in {"on_disconnected", "on_error", "connection_timeout"} : hpc[h] # "idle"

\* C29: once the session has ended, also while the end handler is suspended
\* writing the outcome, no connected event and no safeguard firing starts
\* the conversation or queues a greeting.
C29_NoStartAfterEnd ==
    [][SessionEnded => (starts' = starts /\ greetings' = greetings)]_vars

\* ------------------------------------------------- claims on the lead status
\* The order of the status values of a lead.
StatusRank(st) ==
    IF st = "pending" THEN 0
    ELSE IF st = "in_progress" THEN 1
    ELSE IF st = "called" THEN 2
    ELSE 3

DroppedIn(s) ==
    \/ streampc[s] = "none" /\ streampc'[s] = "closed"
    \/ /\ callPhase[s] \in {"dialing", "connecting"} /\ callPhase'[s] = "ended"
       /\ streampc[s] = "none" /\ streampc'[s] = "none"

\* C24: an inbound event for which no session can be resolved is dropped:
\* the step starts no bot and leaves the session registry and the
\* active-call map as they were.
C24_UnresolvedEventDropped ==
    [][\A s \in Sids :
          DroppedIn(s) => /\ call_sessions' = call_sessions
                          /\ active_calls' = active_calls
                          /\ \A t \in Sids : streampc'[t] = "running" => streampc[t] = "running"]_vars

\* The stream of a call was closed at its start event, and no session can
\* be resolved for the call.
C24_Witness ==
    \E s \in Sids :
        /\ streampc[s] = "closed"
        /\ LookupCallSid(call_sessions, s) = 0
        /\ active_calls[s] = NoActive

\* C25: every TwiML request, whatever lead data, call_id and CallSid it
\* carries or lacks, is answered with a document, Connect/Stream or
\* Say/Hangup: no call is failed by the provider for want of an answer.
C25_TwimlAlwaysAnswered ==
    \A s \in Sids : callPhase[s] # "app_error"

\* A request with lead data that does not parse has been answered with
\* Say/Hangup: the data is in the registry and the call has ended.
C25_Witness ==
    \E s \in Sids :
        /\ callPhase[s] = "ended"
        /\ streampc[s] = "none"
        /\ call_sessions[SidKey(s)] # NoSession
        /\ call_sessions[SidKey(s)].lead = Malformed

\* --------------------------------- claims on the campaign-control operations
\* The status values of the dictionaries retry_failed_calls returns.
RetryStatuses == {"disabled", "info", "completed", "error"}

\* C26: a campaign-control operation returns a structured status dictionary
\* and never raises to its caller: a finished call of retry_failed_calls
\* has returned one of its status values, and no campaign is left running.
C26_ControlReturnsStatus ==
    fn_pc = "done" => (fn_out.status \in RetryStatuses /\ ~campaign_running)

\* --------------------------------------------------- claims on the CSV store
\* C32: every save_call_result and update_lead_status terminates and
\* releases the handler's lock: no saver ever waits for the lock its own
\* task holds.
C32_NoSaverWaitsForOwnLock ==
    \A h \in Savers : hpc[h] # "deadlock"

\* C36: after a transport disconnect has been delivered to the session, its
\* handler comes to an end with the pipeline task cancelled.
C36_DisconnectCancelsPipeline ==
    (fired["on_disconnected"] > 0) ~> task_cancelled

\* C39: once the outcome of a call to a lead with a phone number is saved,
\* the status stored for that lead in the leads file is called or completed,
\* so that the lead is no longer pending.
C39_SavedCallLeavesPending ==
    \A h \in Savers :
        (writes[h] > 0 /\ SessionHasPhone /\ leads_exists)
            => \E l \in Leads : lead_status[l] \in {"called", "completed"}

\* ------------------------------------------ claims on the manager's batches
\* The provider dial requests (_make_call awaiting _initiate_twilio_call) of
\* all the batches the manager is running.
DialRequestsInFlight ==
    Cardinality({rl \in Runs \X Leads : tpc[rl[1]][rl[2]] = "dialing"})

\* C35: at every instant the dial requests in flight, summed over all the
\* batches the manager is running, are at most max_concurrent_calls.
C35_DialRequestsWithinCap == DialRequestsInFlight <= max_concurrent_calls

\* Leads of the run whose dial request the provider accepted: the request
\* returned its call sid to _make_call.
Accepted == {l \in Leads : tpc[1][l] \in {"ok", "error"}}

\* C37: in every state of the run and in its summary meetings <= completed
\* <= attempted <= the leads handed to the batch, completed is the number of
\* leads whose dial request the provider accepted, and meetings is 0.
C37_CountersOrderedAndExact ==
    rpc[1] \in {"dispatching", "returned"} =>
        /\ meetings[1] <= completed[1]
        /\ completed[1] <= attempted[1]
        /\ attempted[1] <= Cardinality({l \in Leads : tpc[1][l] # "none"})
        /\ completed[1] = Cardinality(Accepted)
        /\ meetings[1] = 0

\* ------------------------------------------- claims on the two session timers
\* C34: once the safeguard has made its check the transport counts as
\* connected, so a connection-timeout check that comes after it records no
\* failure; a connection_timeout outcome is begun only in a session whose
\* safeguard has not made its check.
C34_SafeguardDisarmsTimeout ==
    /\ safeguard_task = "done" => transport_connected
    /\ (safeguard_task = "done" /\ timeout_task \in {"saving", "done"})
          => (timeout_task = "done" /\ hpc["connection_timeout"] = "idle"
                /\ writes["connection_timeout"] = 0)
    /\ hpc["connection_timeout"] # "idle" => safeguard_task # "done"

\* The connected event never came, the safeguard made its check and the
\* connection-timeout check after it found the transport connected.
C34_Witness ==
    /\ fired["on_connected"] = 0
    /\ safeguard_task = "done"
    /\ timeout_task = "done"
    /\ transport_connected
    /\ writes["connection_timeout"] = 0

\* --------------------------------------- claims on the media-stream handler
\* C31: the stream handler starts a bot only when a session with lead data
\* that parses resolves for the call identifier of its start event, and then
\* with an active-call entry; a handler that has finished, on any path, has
\* left no entry, and an entry exists only beside a running handler.
C31_BotOnlyForResolvedStart ==
    [][\A s \in Sids :
          /\ (streampc[s] # "running" /\ streampc'[s] = "running")
                => /\ LookupCallSid(call_sessions, s) \notin {0, Malformed}
                   /\ active_calls'[s] # NoActive
          /\ streampc'[s] = "closed" => active_calls'[s] = NoActive
          /\ active_calls'[s] # NoActive => streampc'[s] = "running"]_vars

\* A handler that ran a bot for a resolved call has finished (a status
\* callback had found its entry) and the entry is gone.
C31_Witness ==
    \E s \in Sids :
        /\ streampc[s] = "closed"
        /\ cleanups[s] > 0
        /\ active_calls[s] = NoActive
        /\ LookupCallSid(call_sessions, s) \notin {0, Malformed}

\* C38: whatever number of terminal status callbacks arrive for a call, in
\* any order with the end of its stream handler, no delayed cleanup and no
\* handler deletes an entry that is not there: no del raises KeyError.
C38_NoDeleteOfMissingEntry == key_errors = 0

\* The entry of a call whose handler still runs was deleted by one delayed
\* cleanup while another cleanup for the same call is still to wake.
C38_Witness ==
    \E s \in Sids :
        /\ streampc[s] = "running"
        /\ active_calls[s] = NoActive
        /\ cleanups[s] > 0

\* C33: when two call sessions finish concurrently and both save, the
\* results file ends with the records of both: once each session's write has
\* completed, each session's row is among the rows of data/results.csv.
SessionSaved(k) == session_save[k].pc \in {"done", "update_deadlock"}

C33_ConcurrentSavesKeepBoth ==
    (\A k \in Sessions : SessionSaved(k))
        => \A k \in Sessions :
              \E i \in 1..Len(results_rows) : results_rows[i] = session_save[k].row

====
